---- MODULE Spec2Model ----
(***************************************************************************)
(* Model of blu's content ingestion pipeline (src/main.rs): the multipart  *)
(* decoder, the form validators, the media ingestor, the text renderer,    *)
(* the create_board / create_thread / create_comment / get_threads         *)
(* handlers and the two stores they act on.                                *)
(*                                                                         *)
(* Text is a sequence of one-character strings.  Option<T> is a sequence   *)
(* of length 0 (None) or 1 (Some).  A handler body is a chain of steps     *)
(* over a context record; a step whose context already carries an error   *)
(* passes it on unchanged, which is Rust's `?`.                            *)
(***************************************************************************)
EXTENDS Integers, Sequences, FiniteSets, TLC

VARIABLES boards, comments, blobs, last, bd_form, mp_parts, mp_res, enc_in, enc_out

vars == <<boards, comments, blobs, last, bd_form, mp_parts, mp_res, enc_in, enc_out>>

None == <<>>
Some(x) == <<x>>
IsSome(o) == Len(o) = 1
IsNone(o) == Len(o) = 0
Unwrap(o) == o[1]

(***************************************************************************)
(* Bounds of the model.                                                    *)
(***************************************************************************)
MaxTokens == 4
MaxParts == 3
MaxRows == 3
MaxUuid == 2

(***************************************************************************)
(* Text helpers.                                                           *)
(***************************************************************************)
RECURSIVE Flatten(_)
Flatten(ss) == IF ss = <<>> THEN <<>> ELSE Head(ss) \o Flatten(Tail(ss))

StartsWithAt(s, i, p) ==
    /\ i + Len(p) - 1 <= Len(s)
    /\ SubSeq(s, i, i + Len(p) - 1) = p

StartsWith(s, p) == StartsWithAt(s, 1, p)

EndsWith(s, p) == Len(s) >= Len(p) /\ SubSeq(s, Len(s) - Len(p) + 1, Len(s)) = p

Contains(s, p) == \E i \in 1..Len(s) : StartsWithAt(s, i, p)

Rep(ch, n) == [i \in 1..n |-> ch]

Amp == <<"&", "a", "m", "p", ";">>
Lt == <<"&", "l", "t", ";">>
Gt == <<"&", "g", "t", ";">>
GtGt == Gt \o Gt
SpanOpen == <<"<", "s", "p", "a", "n", ">">>
SpanClose == <<"<", "/", "s", "p", "a", "n", ">">>
Br == <<"<", "b", "r", ">">>
BoldOpen == <<"<", "b", ">">>
BoldClose == <<"<", "/", "b", ">">>
Http == <<"h", "t", "t", "p">>
SchemeSep == <<":", "/", "/">>
AnchorHref == <<"<", "a", " ", "h", "r", "e", "f", "=", "\"">>
AnchorHrefP == AnchorHref \o <<"#", "p">>
AnchorMid == <<"\"", ">">>
AnchorClose == <<"<", "/", "a", ">">>

Lower == {"a", "b", "c", "d", "e", "f", "g", "h", "i", "j", "k", "l", "m",
          "n", "o", "p", "q", "r", "s", "t", "u", "v", "w", "x", "y", "z"}
Upper == {"A", "B", "C", "D", "E", "F", "G", "H", "I", "J", "K", "L", "M",
          "N", "O", "P", "Q", "R", "S", "T", "U", "V", "W", "X", "Y", "Z"}
Digit == {"0", "1", "2", "3", "4", "5", "6", "7", "8", "9"}

\* The class [$-_@.&+]: `$-_` is the range 0x24..0x5F, so it holds the
\* punctuation below besides the digits and the upper-case letters.
DollarToUnderscore ==
    {"$", "%", "&", "'", "(", ")", "*", "+", ",", "-", ".", "/", ":", ";",
     "<", "=", ">", "?", "@", "[", "\\", "]", "^", "_"} \cup Digit \cup Upper

\* One character of (?:[a-zA-Z]|[0-9]|[$-_@.&+]|[!*\(\),]|(?:%[0-9a-fA-F][0-9a-fA-F]))
\* (`%` is inside `$-_`, so the %XX alternative adds nothing).
UrlChars ==
    Lower \cup Upper \cup Digit \cup DollarToUnderscore
          \cup {"@", ".", "&", "+"} \cup {"!", "*", "(", ")", ","}

\* html_escape::encode_text: `&`, `<` and `>` are escaped.
EscapeChar(ch) ==
    CASE ch = "&" -> Amp
      [] ch = "<" -> Lt
      [] ch = ">" -> Gt
      [] OTHER -> <<ch>>

encode_text(s) == Flatten([i \in 1..Len(s) |-> EscapeChar(s[i])])

Min(S) == CHOOSE x \in S : \A y \in S : x <= y

\* Length of the longest run of characters of the class from position i on.
RunLen(s, i, class) ==
    Min({j \in i..(Len(s) + 1) : j = Len(s) + 1 \/ s[j] \notin class}) - i

\* Length of the match of re_url anchored at position i (0: no match).
UrlMatchAt(s, i) ==
    LET pre == IF StartsWithAt(s, i, Http \o <<"s">> \o SchemeSep) THEN 8
               ELSE IF StartsWithAt(s, i, Http \o SchemeSep) THEN 7
               ELSE 0
        run == IF pre = 0 THEN 0 ELSE RunLen(s, i + pre, UrlChars)
    IN  IF run = 0 THEN 0 ELSE pre + run

\* Length of the digits of the match of re_replies anchored at position i.
ReplyMatchAt(s, i) ==
    IF StartsWithAt(s, i, GtGt) THEN RunLen(s, i + Len(GtGt), Digit) ELSE 0

\* re_url.replace_all(text, "<a href=\"$0\">$0</a>"): the leftmost match from
\* position i on is replaced and the scan goes on after it.
RECURSIVE ReplaceUrls(_, _)
ReplaceUrls(s, i) ==
    LET starts == {j \in i..Len(s) : UrlMatchAt(s, j) > 0}
    IN  IF starts = {} THEN SubSeq(s, i, Len(s))
        ELSE LET j == Min(starts)
                 n == UrlMatchAt(s, j)
                 m == SubSeq(s, j, j + n - 1)
             IN  SubSeq(s, i, j - 1)
                 \o AnchorHref \o m \o AnchorMid \o m \o AnchorClose
                 \o ReplaceUrls(s, j + n)

\* re_replies.replace_all(text, "<a href=\"#p$1\">&gt;&gt;$1</a>")
RECURSIVE ReplaceReplies(_, _)
ReplaceReplies(s, i) ==
    LET starts == {j \in i..Len(s) : ReplyMatchAt(s, j) > 0}
    IN  IF starts = {} THEN SubSeq(s, i, Len(s))
        ELSE LET j == Min(starts)
                 n == ReplyMatchAt(s, j)
                 d == SubSeq(s, j + Len(GtGt), j + Len(GtGt) + n - 1)
             IN  SubSeq(s, i, j - 1)
                 \o AnchorHrefP \o d \o AnchorMid \o GtGt \o d \o AnchorClose
                 \o ReplaceReplies(s, j + Len(GtGt) + n)

\* The pieces of s from position i on between occurrences of sep, the last
\* one included.
RECURSIVE SplitOn(_, _, _)
SplitOn(s, sep, i) ==
    LET hits == {j \in i..Len(s) : StartsWithAt(s, j, sep)}
    IN  IF hits = {} THEN <<SubSeq(s, i, Len(s))>>
        ELSE LET j == Min(hits)
             IN  <<SubSeq(s, i, j - 1)>> \o SplitOn(s, sep, j + Len(sep))

\* str::lines over "\n": a final line ending is optional, so the empty piece
\* after a trailing "\n" (and the one piece of the empty text) is no line.
Lines(s) ==
    LET ps == SplitOn(s, <<"\n">>, 1)
    IN  IF ps[Len(ps)] = <<>> THEN SubSeq(ps, 1, Len(ps) - 1) ELSE ps

IsQuoteLine(ln) == StartsWith(ln, Gt) /\ ~StartsWith(ln, GtGt)

WrapLine(ln) == IF IsQuoteLine(ln) THEN SpanOpen \o ln \o SpanClose ELSE ln

RECURSIVE Join(_, _)
Join(ss, sep) ==
    IF ss = <<>> THEN <<>>
    ELSE IF Len(ss) = 1 THEN ss[1]
    ELSE ss[1] \o sep \o Join(Tail(ss), sep)

encode_comment(com) ==
    LET text == encode_text(com)
        lns == Lines(text)
        wrapped == Join([i \in 1..Len(lns) |-> WrapLine(lns[i])], Br)
    IN  ReplaceReplies(ReplaceUrls(wrapped, 1), 1)

encode_subject(sub) == BoldOpen \o encode_comment(sub) \o BoldClose

(***************************************************************************)
(* Multipart decoder.  A part is a record                                  *)
(*   name      : Option<String>   the part's name                          *)
(*   utf8      : BOOLEAN          whether field.text() decodes the body    *)
(*   json      : Option<T>        what serde_json::from_str gives for the  *)
(*                                body (None: it does not deserialize)     *)
(*   file_name : Option<<<stem, ext>>>                                     *)
(*   bytes     : the body as a byte buffer (see Buffers below)             *)
(***************************************************************************)
Part(name, utf8, json, file_name, bytes) ==
    [name |-> name, utf8 |-> utf8, json |-> json, file_name |-> file_name,
     bytes |-> bytes]

\* A byte buffer, by what the two libraries make of it: the type infer::get
\* sniffs from its magic bytes (None: no match) and whether create_thumbnails
\* and write_jpeg succeed on it.
Buffer(mime, thumbable) == [mime |-> mime, thumbable |-> thumbable]

PngImage == Buffer(Some("image/png"), TRUE)
BrokenPng == Buffer(Some("image/png"), FALSE)
PlainText == Buffer(None, FALSE)
NoBytes == Buffer(None, FALSE)
AFile == <<"a", "png">>

\* Path::new(file).file_stem(): the name without its extension.
FileStem(file) == file[1]

ParseState0 == [err |-> "", data |-> None, file_name |-> None, file_bytes |-> None]

\* The arm `Some("data")`.
DataField(st, field) ==
    IF ~field.utf8 THEN [st EXCEPT !.err = "text error"]
    ELSE IF IsNone(field.json) THEN [st EXCEPT !.err = "parse error"]
    ELSE [st EXCEPT !.data = field.json]

\* The arm `Some("media")`.
MediaField(st, field) ==
    IF IsNone(field.file_name) THEN [st EXCEPT !.err = "file namenot found"]
    ELSE [st EXCEPT !.file_name = Some(FileStem(Unwrap(field.file_name))),
                    !.file_bytes = Some(field.bytes)]

\* Any other part name is an error.
OtherFieldRejected(st, field) == [st EXCEPT !.err = "unexpected field"]

\* The arm `_ => {}`.
OtherField(st, field) == st

\* The `while let Some(field)` loop from part i on; an error returns at once.
RECURSIVE ParseLoop(_, _, _)
ParseLoop(parts, i, st) ==
    IF i > Len(parts) \/ st.err # "" THEN st
    ELSE LET field == parts[i]
             nx == IF field.name = Some("data") THEN DataField(st, field)
                   ELSE IF field.name = Some("media") THEN MediaField(st, field)
                   ELSE OtherField(st, field)
         IN  ParseLoop(parts, i + 1, nx)

parse_multipart(parts) ==
    LET st == ParseLoop(parts, 1, ParseState0)
    IN  IF st.err # "" THEN st
        ELSE IF IsNone(st.data) THEN [st EXCEPT !.err = "invalid data"]
        ELSE st

(***************************************************************************)
(* Form validators.  Each gives [err, data]: err = "" is Ok(data).         *)
(***************************************************************************)
CodeMax == 5
NameMax == 100
DescMax == 100
AliasMax == 100

Ok(data) == [err |-> "", data |-> data]
Err(msg, data) == [err |-> msg, data |-> data]

CreateBoard_validate(self) ==
    IF Len(self.code) = 0 \/ Len(self.code) > CodeMax
        THEN Err("invalid board code", self)
    ELSE IF Len(self.name) = 0 \/ Len(self.name) > NameMax
        THEN Err("invalid board name", self)
    ELSE IF Len(self.desc) = 0 \/ Len(self.desc) > DescMax
        THEN Err("invalid board description", self)
    ELSE IF self.max_threads < 0
        THEN Err("max_threads can't be negative", self)
    ELSE IF self.max_replies < 0
        THEN Err("max_replies can't be negative", self)
    ELSE IF self.max_img_replies < 0
        THEN Err("max_img_replies can't be negative", self)
    ELSE Ok(self)

CreateThread_validate(self) ==
    IF IsNone(self.sub) /\ IsNone(self.com)
        THEN Err("sub or com is required", self)
    ELSE IF Len(self.board) = 0
        THEN Err("board is required", self)
    ELSE IF IsSome(self.alias) /\ Len(Unwrap(self.alias)) > AliasMax
        THEN Err("alias is too long", self)
    ELSE Ok([alias |-> self.alias,
             sub |-> IF IsSome(self.sub) THEN Some(encode_subject(Unwrap(self.sub))) ELSE None,
             com |-> IF IsSome(self.com) THEN Some(encode_comment(Unwrap(self.com))) ELSE None,
             board |-> self.board,
             media_desc |-> self.media_desc])

CreateComment_validate(self) ==
    IF self.op < 0
        THEN Err("op can't be negative", self)
    ELSE IF IsSome(self.alias) /\ Len(Unwrap(self.alias)) > AliasMax
        THEN Err("alias is too long", self)
    ELSE Ok([alias |-> self.alias,
             com |-> IF IsSome(self.com) THEN Some(encode_comment(Unwrap(self.com))) ELSE None,
             op |-> self.op,
             media_desc |-> self.media_desc])

(***************************************************************************)
(* A handler's context: the request, what the handler holds so far, and    *)
(* the two stores as the handler leaves them.  uuid is what Uuid::new_v4   *)
(* returns to this call; fault names the one file or store operation of    *)
(* this call that fails ("none": no failure; the first failure ends the    *)
(* handler, so one is enough).                                             *)
(***************************************************************************)
Ctx(parts, uuid, fault) ==
    [err |-> "", parts |-> parts, data |-> None, file_name |-> None,
     file_bytes |-> None, media |-> None, comments |-> comments,
     blobs |-> blobs, uuid |-> uuid, fault |-> fault]

Fail(c, msg) == [c EXCEPT !.err = msg]

Failed(c) == c.err # ""

(***************************************************************************)
(* Media ingestor.  A blob is [name, call]: call is the uuid of the        *)
(* save_media call that created it.  File::create makes the blob, so it    *)
(* exists whether or not the write_all that follows succeeds.              *)
(***************************************************************************)
MediaName(uuid) == <<uuid>>
ThumbName(uuid) == <<uuid, "t">>

Blob(name, call) == [name |-> name, call |-> call]

\* media_kind.extension()
Extension(mime) == IF mime = "image/png" THEN "png" ELSE "bin"

\* infer::get(&media_data).ok_or(..)?
Sniff(c) ==
    IF Failed(c) THEN c
    ELSE IF IsNone(Unwrap(c.file_bytes).mime) THEN Fail(c, "Failed to infer media type")
    ELSE c

\* create_thumbnails(..)?.pop().ok_or(..)? and thumb.write_jpeg(..)?
MakeThumb(c) ==
    IF Failed(c) THEN c
    ELSE IF ~Unwrap(c.file_bytes).thumbable THEN Fail(c, "Failed to create thumbnails")
    ELSE c

\* File::create(media/{media_name}).await?.write_all(&media_data).await?
WriteMedia(c) ==
    IF Failed(c) THEN c
    ELSE IF c.fault = "create_media" THEN Fail(c, "io error")
    ELSE IF c.fault = "write_media"
        THEN Fail([c EXCEPT !.blobs = @ \cup {Blob(MediaName(c.uuid), c.uuid)}],
                  "io error")
    ELSE [c EXCEPT !.blobs = @ \cup {Blob(MediaName(c.uuid), c.uuid)}]

\* File::create(media/{thumb_name}).await?.write_all(thumb_data).await?
WriteThumb(c) ==
    IF Failed(c) THEN c
    ELSE IF c.fault = "create_thumb" THEN Fail(c, "io error")
    ELSE IF c.fault = "write_thumb"
        THEN Fail([c EXCEPT !.blobs = @ \cup {Blob(ThumbName(c.uuid), c.uuid)}],
                  "io error")
    ELSE [c EXCEPT !.blobs = @ \cup {Blob(ThumbName(c.uuid), c.uuid)}]

\* Ok(MediaInfo { .. })
ReturnInfo(c) ==
    IF Failed(c) THEN c
    ELSE [c EXCEPT !.media =
            Some([media_name |-> MediaName(c.uuid),
                  media_ext |-> Extension(Unwrap(Unwrap(c.file_bytes).mime)),
                  thumb_name |-> ThumbName(c.uuid)])]

\* The original is written before the thumbnail is made.
save_media_early_write(c) == ReturnInfo(WriteThumb(MakeThumb(WriteMedia(Sniff(c)))))

save_media(c) == ReturnInfo(WriteThumb(WriteMedia(MakeThumb(Sniff(c)))))

\* A second attempt, with a new uuid, after a failed one.
SaveMediaRetried(c) ==
    LET r == save_media(c)
    IN  IF Failed(c) \/ ~Failed(r) THEN r
        ELSE save_media([r EXCEPT !.err = "", !.uuid = c.uuid + MaxUuid + 1])

\* save_media(media_data).await? as the handlers call it.
SaveMedia(c) == save_media(c)

(***************************************************************************)
(* Handler steps.                                                          *)
(***************************************************************************)
\* parse_multipart::<T>(multipart).await?
ParseStep(c) ==
    LET r == parse_multipart(c.parts)
    IN  IF Failed(r) THEN Fail(c, r.err)
        ELSE [c EXCEPT !.data = Unwrap(r.data), !.file_name = r.file_name,
                       !.file_bytes = r.file_bytes]

ValidateThread(c) ==
    IF Failed(c) THEN c
    ELSE LET v == CreateThread_validate(c.data)
         IN  IF Failed(v) THEN Fail(c, v.err) ELSE [c EXCEPT !.data = v.data]

ValidateComment(c) ==
    IF Failed(c) THEN c
    ELSE LET v == CreateComment_validate(c.data)
         IN  IF Failed(v) THEN Fail(c, v.err) ELSE [c EXCEPT !.data = v.data]

\* SELECT * FROM boards WHERE code = $1, fetch_one
SelectBoard(c) ==
    IF Failed(c) THEN c
    ELSE IF c.fault = "select" THEN Fail(c, "store error")
    ELSE IF \A b \in boards : b.code # c.data.board THEN Fail(c, "no rows returned")
    ELSE c

\* file_bytes.ok_or("image is required")?
RequireImage(c) ==
    IF Failed(c) THEN c
    ELSE IF IsNone(c.file_bytes) THEN Fail(c, "image is required")
    ELSE c

\* if create_comment.com.is_none() && file_bytes.is_none()
RequireComOrImage(c) ==
    IF Failed(c) THEN c
    ELSE IF IsNone(c.data.com) /\ IsNone(c.file_bytes)
        THEN Fail(c, "comment or image is required")
    ELSE c

\* if let Some(media_data) = file_bytes { save_media(media_data).await? .. }
SaveIfMedia(c) == IF Failed(c) \/ IsNone(c.file_bytes) THEN c ELSE SaveMedia(c)

\* The INSERT binds no thumbnail name.
MediaColumnsNoThumb(file_name, media) ==
    [file_name |-> file_name,
     media_name |-> Some(Unwrap(media).media_name),
     thumb_name |-> None,
     media_ext |-> Some(Unwrap(media).media_ext)]

\* The media columns of an INSERT that names them.
MediaColumns(file_name, media) ==
    [file_name |-> file_name,
     media_name |-> Some(Unwrap(media).media_name),
     thumb_name |-> Some(Unwrap(media).thumb_name),
     media_ext |-> Some(Unwrap(media).media_ext)]

\* The media columns of an INSERT that does not name them: NULL.
NoMediaColumns ==
    [file_name |-> None, media_name |-> None, thumb_name |-> None,
     media_ext |-> None]

Row(id, m, media_desc, alias, sub, com, board, op) ==
    [id |-> id, file_name |-> m.file_name, media_name |-> m.media_name,
     thumb_name |-> m.thumb_name, media_ext |-> m.media_ext,
     media_desc |-> media_desc, alias |-> alias, sub |-> sub, com |-> com,
     board |-> board, op |-> op]

\* INSERT INTO comments (..) RETURNING *: the store gives the row the next id.
InsertRow(c, row) ==
    IF c.fault = "insert" THEN Fail(c, "store error")
    ELSE [c EXCEPT !.comments = Append(@, row)]

NextId(c) == Len(c.comments) + 1

\* create_thread's INSERT: op is None::<i64>.
InsertThread(c) ==
    IF Failed(c) THEN c
    ELSE InsertRow(c, Row(NextId(c), MediaColumns(c.file_name, c.media),
                          c.data.media_desc, c.data.alias, c.data.sub, c.data.com,
                          Some(c.data.board), None))

\* create_comment's two INSERTs: neither names sub or board.
InsertComment(c) ==
    IF Failed(c) THEN c
    ELSE IF IsSome(c.media)
        THEN InsertRow(c, Row(NextId(c), MediaColumns(c.file_name, c.media),
                              c.data.media_desc, c.data.alias, None, c.data.com,
                              None, Some(c.data.op)))
    ELSE InsertRow(c, Row(NextId(c), NoMediaColumns, None, c.data.alias, None,
                          c.data.com, None, Some(c.data.op)))

\* A thread without an image is inserted with no media columns.
create_thread_image_optional(c) ==
    LET v == SelectBoard(ValidateThread(ParseStep(c)))
    IN  IF Failed(v) \/ IsSome(v.file_bytes) THEN InsertThread(SaveMedia(v))
        ELSE InsertRow(v, Row(NextId(v), NoMediaColumns, v.data.media_desc,
                              v.data.alias, v.data.sub, v.data.com,
                              Some(v.data.board), None))

create_thread_impl(c) ==
    InsertThread(SaveMedia(RequireImage(SelectBoard(ValidateThread(ParseStep(c))))))

\* The media is saved before the form is validated.
create_comment_late_validation(c) ==
    InsertComment(RequireComOrImage(ValidateComment(SaveIfMedia(ParseStep(c)))))

create_comment_impl(c) ==
    InsertComment(SaveIfMedia(RequireComOrImage(ValidateComment(ParseStep(c)))))

(***************************************************************************)
(* get_threads: the LEFT JOIN of the threads of a board with their         *)
(* replies, grouped by thread id.  A joined row is <<c, r>>, r an Option:  *)
(* None is the NULL-extended row of a thread that no reply matches.        *)
(***************************************************************************)
Rows == {comments[i] : i \in DOMAIN comments}

\* An inner join: a thread that no reply matches gives no row.
InnerJoinRows(c) == {<<c, Some(r)>> : r \in {x \in Rows : x.op = Some(c.id)}}

\* FROM comments c LEFT JOIN comments r ON r.op = c.id
JoinRows(c) ==
    LET m == {r \in Rows : r.op = Some(c.id)}
    IN  IF m = {} THEN {<<c, None>>} ELSE {<<c, Some(r)>> : r \in m}

\* Column col of r; every column of the NULL-extended row is NULL, and id is
\* never NULL in a stored row.
RColumn(r, col) ==
    IF IsNone(r) THEN None
    ELSE IF col = "id" THEN Some(Unwrap(r).id)
    ELSE Unwrap(r)[col]

\* COUNT(r.col): the rows of the group whose r.col is not NULL.
Count(group, col) == Cardinality({p \in group : IsSome(RColumn(p[2], col))})

get_threads(board_id) ==
    LET from == {c \in Rows : IsNone(c.op) /\ c.board = Some(board_id)}
        joined == UNION {JoinRows(c) : c \in from}
        keys == {p[1].id : p \in joined}
        Group(k) == {p \in joined : p[1].id = k}
        Select(k) ==
            LET c == (CHOOSE p \in Group(k) : TRUE)[1]
            IN  [id |-> c.id, media_name |-> c.media_name,
                 thumb_name |-> c.thumb_name, sub |-> c.sub, com |-> c.com,
                 op |-> c.op, board |-> c.board,
                 replies |-> Count(Group(k), "id"),
                 images |-> Count(Group(k), "media_name")]
    IN  {Select(k) : k \in keys}

(***************************************************************************)
(* The server: the handlers as actions on the Content Store (boards,       *)
(* comments) and the Blob Store (blobs).  last is the response of the      *)
(* latest request: the handler, its error ("": none), whether the request  *)
(* had a `media` part and, for get_threads, the board asked for.           *)
(***************************************************************************)
Response(op, err, media, board) ==
    [op |-> op, err |-> err, media |-> media, board |-> board]

HasPart(parts, name) == \E i \in DOMAIN parts : parts[i].name = Some(name)

\* Uuid::new_v4(): a value no earlier call got.  The names are opaque and
\* only their distinctness matters, so the least unused value stands for it.
UsedUuids == {b.call : b \in blobs}
NewUuid == Min({u \in 1..(MaxUuid + 1) : u \notin UsedUuids})

MediaFaults == {"create_media", "write_media", "create_thumb", "write_thumb"}

BoardForm(code, name, desc, limits) ==
    [code |-> code, name |-> name, desc |-> desc,
     max_threads |-> limits[1], max_replies |-> limits[2],
     max_img_replies |-> limits[3], max_sub_len |-> limits[4],
     max_com_len |-> limits[5], max_file_size |-> limits[6], is_nsfw |-> FALSE]

ZeroLimits == <<0, 0, 0, 0, 0, 0>>
CodeB == <<"b">>
CodeX == <<"x">>
GoodBoard == BoardForm(CodeB, <<"n">>, <<"d">>, ZeroLimits)

ServerBoardForms == {GoodBoard, BoardForm(Rep("b", CodeMax + 1), <<"n">>, <<"d">>, ZeroLimits)}

CreateBoard(data, fault) ==
    /\ LET v == CreateBoard_validate(data)
       IN  IF Failed(v)
               THEN /\ boards' = boards
                    /\ last' = Response("create_board", v.err, FALSE, <<>>)
           ELSE IF fault = "insert"
               THEN /\ boards' = boards
                    /\ last' = Response("create_board", "store error", FALSE, <<>>)
           ELSE /\ boards' = boards \cup {v.data}
                /\ last' = Response("create_board", "", FALSE, <<>>)
    /\ UNCHANGED <<comments, blobs, bd_form, mp_parts, mp_res, enc_in, enc_out>>

LongAlias == Rep("a", AliasMax + 1)
Subject == <<"s">>
QuoteText == <<">", "h", "i">>

ThreadForm(alias, sub, com, board) ==
    [alias |-> alias, sub |-> sub, com |-> com, media_desc |-> None, board |-> board]

CommentForm(alias, com, op) ==
    [alias |-> alias, com |-> com, media_desc |-> None, op |-> op]

DataPart(json) == Part(Some("data"), TRUE, json, None, NoBytes)
MediaPart(file_name, bytes) == Part(Some("media"), TRUE, None, file_name, bytes)

GoodMedia == <<MediaPart(Some(AFile), PngImage)>>

\* The `media` part of a request: none, a sound image, an undecodable image,
\* bytes of no known type, a part without a file name.
MediaParts ==
    { <<>>, GoodMedia, <<MediaPart(Some(AFile), BrokenPng)>>,
      <<MediaPart(Some(AFile), PlainText)>>, <<MediaPart(None, PngImage)>> }

GoodThread == ThreadForm(None, Some(Subject), None, CodeB)

BadThreads ==
    { ThreadForm(None, None, None, CodeB),
      ThreadForm(None, Some(Subject), None, <<>>),
      ThreadForm(Some(LongAlias), Some(Subject), None, CodeB),
      ThreadForm(None, Some(Subject), None, CodeX) }

\* The requests the server is driven with, each with the fault it meets: the
\* sound form with every `media` part, with every fault when the media is
\* sound; a broken or missing `data` part and every unsound form, with and
\* without media.
ThreadRequests ==
    {<<<<DataPart(Some(GoodThread))>> \o m, "none">> : m \in MediaParts}
    \cup {<<<<DataPart(Some(GoodThread))>> \o GoodMedia, f>> :
             f \in MediaFaults \cup {"select", "insert"}}
    \cup {<<d \o m, "none">> :
             d \in {<<>>, <<DataPart(None)>>} \cup {<<DataPart(Some(t))>> : t \in BadThreads},
             m \in {<<>>, GoodMedia}}

\* Parent ids of the replies: 0 is no row's id, 1 and 2 are the ids of the
\* first two rows, whatever they are.
OpValues == {0, 1, 2}

GoodComments == {CommentForm(None, Some(QuoteText), op) : op \in OpValues}
ImageComments == {CommentForm(None, None, op) : op \in OpValues}

BadComments ==
    { CommentForm(None, Some(QuoteText), -1),
      CommentForm(Some(LongAlias), Some(QuoteText), 1) }

CommentRequests ==
    {<<<<DataPart(Some(t))>>, f>> : t \in GoodComments, f \in {"none", "insert"}}
    \cup {<<<<DataPart(Some(t))>> \o m, "none">> : t \in ImageComments, m \in MediaParts}
    \cup {<<<<DataPart(Some(t))>> \o GoodMedia, f>> :
             t \in ImageComments, f \in MediaFaults \cup {"insert"}}
    \cup {<<d \o m, "none">> :
             d \in {<<>>, <<DataPart(None)>>} \cup {<<DataPart(Some(t))>> : t \in BadComments},
             m \in {<<>>, GoodMedia}}

CreateThread(parts, fault) ==
    /\ Len(comments) < MaxRows
    /\ NewUuid <= MaxUuid
    /\ \E c \in {create_thread_impl(Ctx(parts, NewUuid, fault))} :
           /\ comments' = c.comments
           /\ blobs' = c.blobs
           /\ last' = Response("create_thread", c.err, HasPart(parts, "media"), <<>>)
    /\ UNCHANGED <<boards, bd_form, mp_parts, mp_res, enc_in, enc_out>>

CreateComment(parts, fault) ==
    /\ Len(comments) < MaxRows
    /\ NewUuid <= MaxUuid
    /\ \E c \in {create_comment_impl(Ctx(parts, NewUuid, fault))} :
           /\ comments' = c.comments
           /\ blobs' = c.blobs
           /\ last' = Response("create_comment", c.err, HasPart(parts, "media"), <<>>)
    /\ UNCHANGED <<boards, bd_form, mp_parts, mp_res, enc_in, enc_out>>

\* The listing itself is get_threads(last.board) of the state reached: the
\* handler changes no store.
GetThreads(board_id, fault) ==
    /\ last' = Response("get_threads", IF fault = "select" THEN "store error" ELSE "",
                        FALSE, board_id)
    /\ UNCHANGED <<boards, comments, blobs, bd_form, mp_parts, mp_res, enc_in, enc_out>>

InitStores ==
    /\ boards = {}
    /\ comments = <<>>
    /\ blobs = {}
    /\ last = Response("none", "", FALSE, <<>>)

Init ==
    /\ InitStores
    /\ bd_form = GoodBoard
    /\ mp_parts = <<>>
    /\ mp_res = None
    /\ enc_in = <<>>
    /\ enc_out = None

Next ==
    \/ \E data \in ServerBoardForms, fault \in {"none", "insert"} : CreateBoard(data, fault)
    \/ \E r \in ThreadRequests : CreateThread(r[1], r[2])
    \/ \E r \in CommentRequests : CreateComment(r[1], r[2])
    \/ \E board_id \in {CodeB, CodeX}, fault \in {"none", "select"} :
          GetThreads(board_id, fault)

Spec == Init /\ [][Next]_vars

(***************************************************************************)
(* Board validation on its own: one create_board request, its form drawn   *)
(* from the boundary values of every field.                                *)
(***************************************************************************)
BoardForms ==
    {BoardForm(code, name, desc, limits) :
        code \in {<<>>, <<" ">>, Rep("b", CodeMax), Rep("b", CodeMax + 1)},
        name \in {<<>>, <<" ">>, <<"n">>, Rep("n", NameMax), Rep("n", NameMax + 1)},
        desc \in {<<>>, <<"d">>, Rep("d", DescMax + 1)},
        limits \in [1..6 -> {-1, 0}]}

InitBoard ==
    /\ InitStores
    /\ bd_form \in BoardForms
    /\ mp_parts = <<>>
    /\ mp_res = None
    /\ enc_in = <<>>
    /\ enc_out = None

NextBoard ==
    /\ last.op = "none"
    /\ \E fault \in {"none", "insert"} : CreateBoard(bd_form, fault)

SpecBoard == InitBoard /\ [][NextBoard]_vars

(***************************************************************************)
(* The decoder on its own: a request is a sequence of at most MaxParts     *)
(* parts.  The payload type T is left abstract here ("P1", "P2").          *)
(***************************************************************************)
PartKinds ==
    { Part(Some("data"), TRUE, Some("P1"), None, NoBytes),
      Part(Some("data"), TRUE, Some("P2"), None, NoBytes),
      Part(Some("data"), TRUE, None, None, NoBytes),
      Part(Some("data"), FALSE, None, None, NoBytes),
      Part(Some("media"), TRUE, None, Some(AFile), PngImage),
      Part(Some("media"), TRUE, None, None, PngImage),
      Part(Some("file"), TRUE, Some("P1"), Some(AFile), PngImage),
      Part(None, TRUE, None, None, NoBytes) }

PartSeqs == UNION {[1..n -> PartKinds] : n \in 0..MaxParts}

InitParse ==
    /\ InitStores
    /\ bd_form = GoodBoard
    /\ mp_parts \in PartSeqs
    /\ mp_res = None
    /\ enc_in = <<>>
    /\ enc_out = None

Parse ==
    /\ mp_res = None
    /\ mp_res' = Some(parse_multipart(mp_parts))
    /\ UNCHANGED <<boards, comments, blobs, last, bd_form, mp_parts, enc_in, enc_out>>

NextParse == Parse

SpecParse == InitParse /\ [][NextParse]_vars

(***************************************************************************)
(* The renderer on its own: an input text is a concatenation of at most    *)
(* MaxTokens tokens.                                                       *)
(***************************************************************************)
Tokens == {<<">">>, <<"a">>, <<" ">>, <<"\n">>, <<"1">>, Http \o SchemeSep}

TokenSeqs == UNION {[1..n -> Tokens] : n \in 0..MaxTokens}

EncInputs == {Flatten(ts) : ts \in TokenSeqs}

InitEncode ==
    /\ InitStores
    /\ bd_form = GoodBoard
    /\ mp_parts = <<>>
    /\ mp_res = None
    /\ enc_in \in EncInputs
    /\ enc_out = None

Encode ==
    /\ enc_out = None
    /\ enc_out' = Some(encode_comment(enc_in))
    /\ UNCHANGED <<boards, comments, blobs, last, bd_form, mp_parts, mp_res, enc_in>>

NextEncode == Encode

SpecEncode == InitEncode /\ [][NextEncode]_vars

(***************************************************************************)
(* Properties.                                                             *)
(***************************************************************************)
Creating == {"create_thread", "create_comment"}

\* The rejections of a broken multipart body and of a violated validation rule.
ClientRejections ==
    {"invalid data", "parse error", "text error", "sub or com is required",
     "board is required", "alias is too long", "op can't be negative",
     "image is required", "comment or image is required"}

\* C1: a create_thread or create_comment request that is rejected for a
\* missing `data` part, an unparsable payload or a failed validation rule
\* (the two image rules included) leaves the Blob Store and the Content
\* Store exactly as they were before it.
C1_RejectionHasNoEffect ==
    [][(last'.op \in Creating /\ last'.err \in ClientRejections)
         => (blobs' = blobs /\ comments' = comments /\ boards' = boards)]_vars

\* A comment carrying an image is rejected by a validation rule while the
\* stores already hold a row and blobs.
C1_Witness ==
    /\ last.op = "create_comment"
    /\ last.err = "op can't be negative"
    /\ last.media
    /\ blobs # {}
    /\ comments # <<>>

\* C2: a request that ends in the unknown-media-type error or in the
\* thumbnail error has created no blob, neither original nor thumbnail.
C2_SniffAndThumbFailBeforeWrite ==
    [][(last'.op \in Creating
          /\ last'.err \in {"Failed to infer media type", "Failed to create thumbnails"})
         => blobs' = blobs]_vars

\* An image of a known type that cannot be thumbnailed was rejected.
C2_Witness ==
    /\ last.op \in Creating
    /\ last.err = "Failed to create thumbnails"
    /\ last.media

\* The blobs a step created that no row references after it.
Dangling ==
    {b \in blobs' \ blobs :
        \A i \in DOMAIN comments' :
            /\ comments'[i].media_name # Some(b.name)
            /\ comments'[i].thumb_name # Some(b.name)}

\* C3 as stated: a failing create_thread or create_comment leaves at most
\* one blob of its own without a row referencing it.
C3_AtMostOneOrphan ==
    [][(last'.op \in Creating /\ last'.err # "") => Cardinality(Dangling) <= 1]_vars

\* C3 amended: a failing create_thread or create_comment leaves at most the
\* two blobs of one save_media call, the original and its thumbnail, without
\* a row referencing them.
C3_AtMostOnePairOrphaned ==
    [][(last'.op \in Creating /\ last'.err # "")
         => /\ Cardinality(Dangling) <= 2
            /\ \A b1, b2 \in Dangling : b1.call = b2.call
            /\ \A b \in Dangling : b.name \in {MediaName(b.call), ThumbName(b.call)}]_vars

\* A create_thread failed on its INSERT and the original and the thumbnail
\* of its image are in the Blob Store with no row at all.
C3_Witness ==
    /\ last.op = "create_thread"
    /\ last.err = "store error"
    /\ last.media
    /\ comments = <<>>
    /\ \E u \in 1..MaxUuid : blobs = {Blob(MediaName(u), u), Blob(ThumbName(u), u)}

\* C4: the parent reference of every stored reply is the id of a stored row
\* that is a thread.
C4_ParentIsThread ==
    \A i \in DOMAIN comments :
        IsSome(comments[i].op)
            => \E j \in DOMAIN comments :
                   /\ comments[j].id = Unwrap(comments[i].op)
                   /\ IsNone(comments[j].op)

\* C5: a stored row has a thumbnail name exactly when it has a media name,
\* and then both name blobs that one save_media call created.
C5_ThumbIffMedia ==
    \A i \in DOMAIN comments :
        LET row == comments[i]
        IN  /\ IsSome(row.media_name) <=> IsSome(row.thumb_name)
            /\ IsSome(row.media_name)
                 => \E b1, b2 \in blobs :
                        /\ b1.name = Unwrap(row.media_name)
                        /\ b2.name = Unwrap(row.thumb_name)
                        /\ b1.call = b2.call

\* A row with an image and a row without one are stored.
C5_Witness ==
    /\ \E i \in DOMAIN comments : IsSome(comments[i].media_name)
    /\ \E i \in DOMAIN comments : IsNone(comments[i].media_name)

\* C6: every stored thread (a row with no parent) has a media name, and a
\* create_thread request with no `media` part ends in an error.
C6_ThreadHasMedia ==
    /\ \A i \in DOMAIN comments : IsNone(comments[i].op) => IsSome(comments[i].media_name)
    /\ (last.op = "create_thread" /\ ~last.media) => last.err # ""

\* A thread is stored and a sound thread form without an image was refused.
C6_Witness ==
    /\ \E i \in DOMAIN comments : IsNone(comments[i].op)
    /\ last.op = "create_thread"
    /\ last.err = "image is required"

NonBlank(s) == \E i \in DOMAIN s : s[i] # " "

\* What C7 says a board form must satisfy.
BoardFormValid(f) ==
    /\ NonBlank(f.code) /\ Len(f.code) <= CodeMax
    /\ NonBlank(f.name) /\ Len(f.name) <= NameMax
    /\ NonBlank(f.desc) /\ Len(f.desc) <= DescMax
    /\ f.max_threads >= 0 /\ f.max_replies >= 0 /\ f.max_img_replies >= 0
    /\ f.max_sub_len >= 0 /\ f.max_com_len >= 0 /\ f.max_file_size >= 0

BoardRejections ==
    {"invalid board code", "invalid board name", "invalid board description",
     "max_threads can't be negative", "max_replies can't be negative",
     "max_img_replies can't be negative"}

\* C7: board validation accepts a form exactly when its code, name and
\* description are non-blank and within their length bounds and all six
\* numeric limits are >= 0; a rejected form inserts no board.
C7_BoardValidation ==
    last.op = "create_board"
        => /\ (last.err \notin BoardRejections) <=> BoardFormValid(bd_form)
           /\ last.err # "" => boards = {}

RepliesTo(id) == {j \in DOMAIN comments : comments[j].op = Some(id)}

\* C8: the listing of a board holds every thread of the board exactly once,
\* with replies = the number of rows whose parent is the thread and images =
\* the number of those rows that carry media.
C8_ThreadCounts ==
    (last.op = "get_threads" /\ last.err = "")
        => \A i \in DOMAIN comments :
               (IsNone(comments[i].op) /\ comments[i].board = Some(last.board))
                   => LET listed == {t \in get_threads(last.board) : t.id = comments[i].id}
                      IN  /\ Cardinality(listed) = 1
                          /\ \A t \in listed :
                                 /\ t.replies = Cardinality(RepliesTo(t.id))
                                 /\ t.images = Cardinality({j \in RepliesTo(t.id) :
                                                   IsSome(comments[j].media_name)})

\* A listing with a thread that has two replies, one of them with an image.
C8_Witness ==
    /\ last.op = "get_threads"
    /\ last.err = ""
    /\ \E t \in get_threads(last.board) : t.replies = 2 /\ t.images = 1

IsRecognized(part) == part.name \in {Some("data"), Some("media")}

DataPartIdx == {i \in DOMAIN mp_parts : mp_parts[i].name = Some("data")}
MediaPartIdx == {i \in DOMAIN mp_parts : mp_parts[i].name = Some("media")}

WellFormed(part) == part.utf8 /\ IsSome(part.json)

\* What C9 says besides its last clause: parts of any other name do not
\* change the result, and well-formed `data` with no `media` succeeds with
\* no file bytes.
C9_Common(r) ==
    /\ r = parse_multipart(SelectSeq(mp_parts, IsRecognized))
    /\ (/\ DataPartIdx # {}
        /\ \A i \in DataPartIdx : WellFormed(mp_parts[i])
        /\ MediaPartIdx = {})
         => (r.err = "" /\ IsNone(r.file_bytes) /\ IsSome(r.data))

\* C9 as stated: besides the above, the call fails with the missing-data
\* error exactly when the sequence has no `data` part.
C9_MissingDataIffNoData ==
    IsSome(mp_res)
        => /\ C9_Common(Unwrap(mp_res))
           /\ Unwrap(mp_res).err = "invalid data" <=> DataPartIdx = {}

\* C9 amended: besides the above, the call fails with the missing-data error
\* exactly when the sequence has no `data` part and every `media` part has a
\* file name.
C9_MissingDataIffNoDataAndNamedMedia ==
    IsSome(mp_res)
        => /\ C9_Common(Unwrap(mp_res))
           /\ Unwrap(mp_res).err = "invalid data"
                <=> (/\ DataPartIdx = {}
                     /\ \A i \in MediaPartIdx : IsSome(mp_parts[i].file_name))

\* A body with a named `media` part, a part of another name and no `data`
\* part was decoded and refused for its missing data.
C9_Witness ==
    /\ IsSome(mp_res)
    /\ Unwrap(mp_res).err = "invalid data"
    /\ MediaPartIdx # {}
    /\ \E i \in DOMAIN mp_parts : ~IsRecognized(mp_parts[i])

\* C10: in the output, cut at the line-break markers, the piece of a line
\* that begins with one `>` and not with `>>` is one quoting span (it begins
\* with <span>, ends with </span> and holds no other span tag), and the
\* piece of any other line does not begin with <span>.
C10_QuoteLinesWrapped ==
    IsSome(enc_out)
        => LET lns == Lines(enc_in)
               segs == SplitOn(Unwrap(enc_out), Br, 1)
           IN  lns # <<>>
                 => /\ Len(segs) = Len(lns)
                    /\ \A i \in DOMAIN lns :
                           IF StartsWith(lns[i], <<">">>) /\ ~StartsWith(lns[i], <<">", ">">>)
                           THEN LET inner == SubSeq(segs[i], Len(SpanOpen) + 1,
                                                    Len(segs[i]) - Len(SpanClose))
                                IN  /\ StartsWith(segs[i], SpanOpen)
                                    /\ EndsWith(segs[i], SpanClose)
                                    /\ ~Contains(inner, SpanOpen)
                                    /\ ~Contains(inner, SpanClose)
                           ELSE ~StartsWith(segs[i], SpanOpen)

====
